---------------------------- MODULE Spec2Model ----------------------------
(***************************************************************************)
(* dsa::doubly_linked_list<T> (lists/doubly_linked_list.hpp): a heap of    *)
(* doubly_linked_node objects owned through std::shared_ptr links, the     *)
(* list handles (front, back, nodes) and the operations on them.           *)
(*                                                                         *)
(* Naming follows the source.  Note that in the source the field `back`    *)
(* is the node begin() starts at (first()), and `front` is the node        *)
(* reached last by ++ (last()); push_front links at `back`, push_back      *)
(* links at `front`, pop_front unlinks `front` and pop_back unlinks `back`.*)
(***************************************************************************)
EXTENDS Integers, Sequences, FiniteSets, TLC

\* ------------------------------------------------------------------ bounds
\* Number of node objects the allocator can hand out (std::make_shared).
MaxNodes == 3
\* Item values are 0..MaxItem; T is std::int32_t in the tests.
MaxItem == 1
\* Longest input sequence of the push/pop round-trip scenarios.
MaxLen == 3

\* --------------------------------------------------------------- constants
\* nullptr, the initial value of every link.
NULL == 0
\* T(), the value-initialised item.
DefaultT == 0

Nodes == 1..MaxNodes
Items == 0..MaxItem
Lists == {"a", "b"}

VARIABLES
    heap,   \* heap[n]: the doubly_linked_node object n: item, previous, next
    lists,  \* lists[l]: the doubly_linked_list object l: front, back, nodes
    frame,  \* the member function in progress, if it is a loop (clear, +=)
    op,     \* the call that made the last step
    ret,    \* what that call returned: <<>> for void, <<v>> for a value
    rt      \* the round-trip scenario driver (the test cases' locals)

vars == <<heap, lists, frame, op, ret, rt>>

\* ------------------------------------------------------------ node objects
\* A node slot that holds no object (never allocated, or freed).
FreeNode == [item |-> DefaultT, previous |-> NULL, next |-> NULL, used |-> FALSE]

\* doubly_linked_node( T item ): the item, both links nullptr.
doubly_linked_node(item) ==
    [item |-> item, previous |-> NULL, next |-> NULL, used |-> TRUE]

\* A list object that is not constructed (before construction, after destruction).
NoList == [live |-> FALSE, front |-> NULL, back |-> NULL, nodes |-> 0]

\* doubly_linked_list() = default: both links nullptr, nodes 0.
EmptyList == [live |-> TRUE, front |-> NULL, back |-> NULL, nodes |-> 0]

Idle == [pc |-> "idle", l |-> "a", r |-> "a", node |-> NULL]

\* The free slots of a heap h (its slots are DOMAIN h); std::make_shared takes
\* one.  Which address the allocator returns is not observable (no operation
\* compares or orders addresses), so the model takes the lowest free slot.
FreeSlots(h) == {n \in DOMAIN h : ~h[n].used}
make_shared(h) == CHOOSE n \in FreeSlots(h) : \A m \in FreeSlots(h) : n <= m

\* Whether some std::shared_ptr owns node n (its use count is not 0): a front
\* or back link of a list object, a previous or next link of a node object,
\* or the local `node` of a running operator+=.
Owned(h, ls, fr, n) ==
    \/ fr.node = n
    \/ \E l \in Lists : ls[l].front = n \/ ls[l].back = n
    \/ \E m \in DOMAIN h : h[m].used /\ (h[m].previous = n \/ h[m].next = n)

\* std::shared_ptr: a node whose last owner is gone is destroyed, and with it
\* its own previous and next links, which may in turn release its neighbours.
RECURSIVE Release(_, _, _)
Release(h, ls, fr) ==
    LET dead == {n \in DOMAIN h : h[n].used /\ ~Owned(h, ls, fr, n)}
    IN  IF dead = {} THEN h
        ELSE Release([n \in DOMAIN h |-> IF n \in dead THEN FreeNode ELSE h[n]], ls, fr)

\* ------------------------------------------------------------ list members
\* A store s is the pair [heap, lists] a member function reads and writes.
Store == [heap |-> heap, lists |-> lists]

\* bool empty() const
empty(ls, l) ==
    (ls[l].front = NULL) /\ (ls[l].back = NULL) /\ (ls[l].nodes = 0)

\* auto size() const
size(ls, l) == ls[l].nodes

\* push_front without `newNode->next = this->back`.
push_front_no_next(s, l, item) ==
    LET newNode == make_shared(s.heap)
        h1 == [s.heap EXCEPT ![newNode] = doubly_linked_node(item)]
        back == s.lists[l].back
    IN  IF empty(s.lists, l)
        THEN [heap  |-> h1,
              lists |-> [s.lists EXCEPT ![l].back = newNode,
                                        ![l].front = newNode,
                                        ![l].nodes = @ + 1]]
        ELSE [heap  |-> [h1 EXCEPT ![back].previous = newNode],
              lists |-> [s.lists EXCEPT ![l].back = newNode,
                                        ![l].nodes = @ + 1]]

\* push_front without `this->back->previous = newNode`.
push_front_no_previous(s, l, item) ==
    LET newNode == make_shared(s.heap)
        h1 == [s.heap EXCEPT ![newNode] = doubly_linked_node(item)]
        back == s.lists[l].back
    IN  IF empty(s.lists, l)
        THEN [heap  |-> h1,
              lists |-> [s.lists EXCEPT ![l].back = newNode,
                                        ![l].front = newNode,
                                        ![l].nodes = @ + 1]]
        ELSE [heap  |-> [h1 EXCEPT ![newNode].next = back],
              lists |-> [s.lists EXCEPT ![l].back = newNode,
                                        ![l].nodes = @ + 1]]

\* void push_front( const T item )
push_front(s, l, item) ==
    LET newNode == make_shared(s.heap)
        h1 == [s.heap EXCEPT ![newNode] = doubly_linked_node(item)]
        back == s.lists[l].back
    IN  IF empty(s.lists, l)
        THEN [heap  |-> h1,
              lists |-> [s.lists EXCEPT ![l].back = newNode,
                                        ![l].front = newNode,
                                        ![l].nodes = @ + 1]]
        ELSE [heap  |-> [h1 EXCEPT ![newNode].next = back,
                                   ![back].previous = newNode],
              lists |-> [s.lists EXCEPT ![l].back = newNode,
                                        ![l].nodes = @ + 1]]

\* push_back without `newNode->previous = this->front`.
push_back_no_previous(s, l, item) ==
    LET newNode == make_shared(s.heap)
        h1 == [s.heap EXCEPT ![newNode] = doubly_linked_node(item)]
        front == s.lists[l].front
    IN  IF empty(s.lists, l)
        THEN [heap  |-> h1,
              lists |-> [s.lists EXCEPT ![l].front = newNode,
                                        ![l].back = newNode,
                                        ![l].nodes = @ + 1]]
        ELSE [heap  |-> [h1 EXCEPT ![front].next = newNode],
              lists |-> [s.lists EXCEPT ![l].front = newNode,
                                        ![l].nodes = @ + 1]]

\* push_back without `++( this->nodes )`.
push_back_no_count(s, l, item) ==
    LET newNode == make_shared(s.heap)
        h1 == [s.heap EXCEPT ![newNode] = doubly_linked_node(item)]
        front == s.lists[l].front
    IN  IF empty(s.lists, l)
        THEN [heap  |-> h1,
              lists |-> [s.lists EXCEPT ![l].front = newNode,
                                        ![l].back = newNode]]
        ELSE [heap  |-> [h1 EXCEPT ![newNode].previous = front,
                                   ![front].next = newNode],
              lists |-> [s.lists EXCEPT ![l].front = newNode]]

\* void push_back( const T item )
push_back(s, l, item) ==
    LET newNode == make_shared(s.heap)
        h1 == [s.heap EXCEPT ![newNode] = doubly_linked_node(item)]
        front == s.lists[l].front
    IN  IF empty(s.lists, l)
        THEN [heap  |-> h1,
              lists |-> [s.lists EXCEPT ![l].front = newNode,
                                        ![l].back = newNode,
                                        ![l].nodes = @ + 1]]
        ELSE [heap  |-> [h1 EXCEPT ![newNode].previous = front,
                                   ![front].next = newNode],
              lists |-> [s.lists EXCEPT ![l].front = newNode,
                                        ![l].nodes = @ + 1]]

\* pop_front with `--( this->nodes )` ahead of the empty() test.
pop_front_counts_first(s, l) ==
    IF empty(s.lists, l)
    THEN [heap |-> s.heap, lists |-> [s.lists EXCEPT ![l].nodes = @ - 1],
          ret |-> <<DefaultT>>]
    ELSE LET front == s.lists[l].front
             item == s.heap[front].item
             previousNode == s.heap[front].previous
             h1 == [s.heap EXCEPT ![front].previous = NULL]
         IN  IF previousNode # NULL
             THEN [heap  |-> [h1 EXCEPT ![previousNode].next = NULL],
                   lists |-> [s.lists EXCEPT ![l].front = previousNode,
                                             ![l].nodes = @ - 1],
                   ret   |-> <<item>>]
             ELSE [heap  |-> h1,
                   lists |-> [s.lists EXCEPT ![l].front = NULL,
                                             ![l].back = NULL,
                                             ![l].nodes = @ - 1],
                   ret   |-> <<item>>]

\* pop_front without `previousNode->next = nullptr`.
pop_front_keeps_next(s, l) ==
    IF empty(s.lists, l)
    THEN [heap |-> s.heap, lists |-> s.lists, ret |-> <<DefaultT>>]
    ELSE LET front == s.lists[l].front
             item == s.heap[front].item
             previousNode == s.heap[front].previous
             h1 == [s.heap EXCEPT ![front].previous = NULL]
         IN  IF previousNode # NULL
             THEN [heap  |-> h1,
                   lists |-> [s.lists EXCEPT ![l].front = previousNode,
                                             ![l].nodes = @ - 1],
                   ret   |-> <<item>>]
             ELSE [heap  |-> h1,
                   lists |-> [s.lists EXCEPT ![l].front = NULL,
                                             ![l].back = NULL,
                                             ![l].nodes = @ - 1],
                   ret   |-> <<item>>]

\* T pop_front(): the result carries the returned item in ret.
pop_front(s, l) ==
    IF empty(s.lists, l)
    THEN [heap |-> s.heap, lists |-> s.lists, ret |-> <<DefaultT>>]
    ELSE LET front == s.lists[l].front
             item == s.heap[front].item
             previousNode == s.heap[front].previous
             h1 == [s.heap EXCEPT ![front].previous = NULL]
         IN  IF previousNode # NULL
             THEN [heap  |-> [h1 EXCEPT ![previousNode].next = NULL],
                   lists |-> [s.lists EXCEPT ![l].front = previousNode,
                                             ![l].nodes = @ - 1],
                   ret   |-> <<item>>]
             ELSE [heap  |-> h1,
                   lists |-> [s.lists EXCEPT ![l].front = NULL,
                                             ![l].back = NULL,
                                             ![l].nodes = @ - 1],
                   ret   |-> <<item>>]

\* pop_back without `nextNode->previous = nullptr`.
pop_back_keeps_previous(s, l) ==
    IF empty(s.lists, l)
    THEN [heap |-> s.heap, lists |-> s.lists, ret |-> <<DefaultT>>]
    ELSE LET back == s.lists[l].back
             item == s.heap[back].item
             nextNode == s.heap[back].next
             h1 == [s.heap EXCEPT ![back].next = NULL]
         IN  IF nextNode # NULL
             THEN [heap  |-> h1,
                   lists |-> [s.lists EXCEPT ![l].back = nextNode,
                                             ![l].nodes = @ - 1],
                   ret   |-> <<item>>]
             ELSE [heap  |-> h1,
                   lists |-> [s.lists EXCEPT ![l].front = NULL,
                                             ![l].back = NULL,
                                             ![l].nodes = @ - 1],
                   ret   |-> <<item>>]

\* T pop_back()
pop_back(s, l) ==
    IF empty(s.lists, l)
    THEN [heap |-> s.heap, lists |-> s.lists, ret |-> <<DefaultT>>]
    ELSE LET back == s.lists[l].back
             item == s.heap[back].item
             nextNode == s.heap[back].next
             h1 == [s.heap EXCEPT ![back].next = NULL]
         IN  IF nextNode # NULL
             THEN [heap  |-> [h1 EXCEPT ![nextNode].previous = NULL],
                   lists |-> [s.lists EXCEPT ![l].back = nextNode,
                                             ![l].nodes = @ - 1],
                   ret   |-> <<item>>]
             ELSE [heap  |-> h1,
                   lists |-> [s.lists EXCEPT ![l].front = NULL,
                                             ![l].back = NULL,
                                             ![l].nodes = @ - 1],
                   ret   |-> <<item>>]

\* void blank_pop_front(): pop_front without the returned item.
blank_pop_front(s, l) ==
    IF ~empty(s.lists, l)
    THEN LET front == s.lists[l].front
             previousNode == s.heap[front].previous
             h1 == [s.heap EXCEPT ![front].previous = NULL]
         IN  IF previousNode # NULL
             THEN [heap  |-> [h1 EXCEPT ![previousNode].next = NULL],
                   lists |-> [s.lists EXCEPT ![l].front = previousNode,
                                             ![l].nodes = @ - 1]]
             ELSE [heap  |-> h1,
                   lists |-> [s.lists EXCEPT ![l].front = NULL,
                                             ![l].back = NULL,
                                             ![l].nodes = @ - 1]]
    ELSE [heap |-> s.heap, lists |-> s.lists]

\* peek_front reading the item of `back`.
peek_front_at_back(s, l) ==
    IF empty(s.lists, l) THEN <<DefaultT>> ELSE <<s.heap[s.lists[l].back].item>>

\* T peek_front() const
peek_front(s, l) ==
    IF empty(s.lists, l) THEN <<DefaultT>> ELSE <<s.heap[s.lists[l].front].item>>

\* T peek_back() const
peek_back(s, l) ==
    IF empty(s.lists, l) THEN <<DefaultT>> ELSE <<s.heap[s.lists[l].back].item>>

\* The copy constructor taking over the nodes of other instead of copying them.
copy_constructor_shares_nodes(s, l, other) ==
    [heap  |-> s.heap,
     lists |-> [s.lists EXCEPT ![l] = s.lists[other]]]

\* doubly_linked_list( const doubly_linked_list& other ): the loop
\* `while ( node ) { push_back( node->item ); node = node->next; }` on the
\* new, empty object l.  other is another object, so its chain is not touched.
RECURSIVE copy_loop(_, _, _)
copy_loop(s, l, node) ==
    IF node = NULL THEN s
    ELSE copy_loop(push_back(s, l, s.heap[node].item), l, s.heap[node].next)

\* The copy constructor starting its walk at other.front.
copy_constructor_from_front(s, l, other) ==
    copy_loop([heap |-> s.heap, lists |-> [s.lists EXCEPT ![l] = EmptyList]],
              l, s.lists[other].front)

\* The copy constructor: a new, empty object, then the loop from other.back.
copy_constructor(s, l, other) ==
    copy_loop([heap |-> s.heap, lists |-> [s.lists EXCEPT ![l] = EmptyList]],
              l, s.lists[other].back)

\* The move constructor without `other.nodes = 0`.
move_constructor_keeps_count(s, l, other) ==
    [heap  |-> s.heap,
     lists |-> [s.lists EXCEPT
                  ![l] = [live |-> TRUE,
                          front |-> s.lists[other].front,
                          back |-> s.lists[other].back,
                          nodes |-> s.lists[other].nodes],
                  ![other] = [live |-> TRUE, front |-> NULL, back |-> NULL,
                              nodes |-> s.lists[other].nodes]]]

\* The move constructor copying the two links instead of moving them.
move_constructor_copies_links(s, l, other) ==
    [heap  |-> s.heap,
     lists |-> [s.lists EXCEPT
                  ![l] = [live |-> TRUE,
                          front |-> s.lists[other].front,
                          back |-> s.lists[other].back,
                          nodes |-> s.lists[other].nodes],
                  ![other] = [live |-> TRUE,
                              front |-> s.lists[other].front,
                              back |-> s.lists[other].back,
                              nodes |-> 0]]]

\* The move constructor leaving other as it was.
move_constructor_leaves_source(s, l, other) ==
    [heap  |-> s.heap,
     lists |-> [s.lists EXCEPT ![l] = s.lists[other]]]

\* doubly_linked_list( doubly_linked_list&& other ) noexcept: std::move of a
\* std::shared_ptr leaves the source nullptr; nodes is copied and reset.
move_constructor(s, l, other) ==
    [heap  |-> s.heap,
     lists |-> [s.lists EXCEPT
                  ![l] = [live |-> TRUE,
                          front |-> s.lists[other].front,
                          back |-> s.lists[other].back,
                          nodes |-> s.lists[other].nodes],
                  ![other] = [live |-> TRUE, front |-> NULL, back |-> NULL,
                              nodes |-> 0]]]

\* friend void swap( doubly_linked_list& first, doubly_linked_list& second )
swap(s, fst, snd) ==
    [heap  |-> s.heap,
     lists |-> [s.lists EXCEPT ![fst] = s.lists[snd],
                               ![snd] = s.lists[fst]]]

\* --------------------------------------------------------------- iteration
\* auto first() const: this->back.get()
first(ls, l) == ls[l].back

\* auto last() const: this->front.get()
last(ls, l) == ls[l].front

\* auto next( current ) const: current->next.get()
next(h, current) == h[current].next

\* auto previous( current ) const: current->previous.get()
previous(h, current) == h[current].previous

\* iterator begin(), iterator end(): an iterator is the node pointer it holds.
begin(h, ls, l) == first(ls, l)
end(h, ls, l) == next(h, last(ls, l))

\* reverse_iterator rbegin(), reverse_iterator rend()
rbegin(h, ls, l) == last(ls, l)
rend(h, ls, l) == previous(h, first(ls, l))

\* iterator_impl::operator++: this->node = this->node->next.get()
iterator_inc(h, node) == h[node].next

\* reverse_iterator_impl::operator++: this->node = this->node->previous.get()
reverse_iterator_inc(h, node) == h[node].previous

\* iterator_impl::operator== (and reverse_iterator_impl::operator==): both
\* nullptr: true; the right one nullptr: false; else the nodes' items compare.
iterator_eq(h, this, it) ==
    IF this = NULL /\ it = NULL THEN TRUE
    ELSE IF it = NULL THEN FALSE
    ELSE h[this].item = h[it].item

\* for ( it = begin(); it != end(); ++it ): the nodes visited, in order.  The
\* loop is cut after one visit more than the heap has slots, more than any
\* list holds.
RECURSIVE forward_walk(_, _, _, _)
forward_walk(h, it, e, fuel) ==
    IF fuel = 0 \/ iterator_eq(h, it, e) THEN <<>>
    ELSE <<it>> \o forward_walk(h, iterator_inc(h, it), e, fuel - 1)

\* for ( it = rbegin(); it != rend(); ++it )
RECURSIVE reverse_walk(_, _, _, _)
reverse_walk(h, it, e, fuel) ==
    IF fuel = 0 \/ iterator_eq(h, it, e) THEN <<>>
    ELSE <<it>> \o reverse_walk(h, reverse_iterator_inc(h, it), e, fuel - 1)

\* The nodes of a non-empty list l in begin()..end() and rbegin()..rend() order.
ForwardNodes(h, ls, l) ==
    forward_walk(h, begin(h, ls, l), end(h, ls, l), Cardinality(DOMAIN h) + 1)
ReverseNodes(h, ls, l) ==
    reverse_walk(h, rbegin(h, ls, l), rend(h, ls, l), Cardinality(DOMAIN h) + 1)

ItemsAt(h, ns) == [k \in 1..Len(ns) |-> h[ns[k]].item]

Reverse(q) == [k \in 1..Len(q) |-> q[Len(q) + 1 - k]]

NoRepeat(q) == \A j, k \in 1..Len(q) : j # k => q[j] # q[k]

Range(q) == {q[k] : k \in 1..Len(q)}

\* The items of l in forward-iteration order; an empty list holds none.
Contents(h, ls, l) ==
    IF empty(ls, l) THEN <<>> ELSE ItemsAt(h, ForwardNodes(h, ls, l))

\* ----------------------------------------------------------------- actions
\* The record of a call: the member function, the object l it is called on,
\* its item argument, its list argument and the size of l when the call was
\* made (the steps of a loop keep the size of l at the call of the loop).
Call(name, l, item, other) ==
    [name |-> name, l |-> l, item |-> item, other |-> other,
     pre |-> lists[l].nodes]

RtIdle == [phase |-> "off", S |-> <<>>, popEnd |-> "front", i |-> 0, out |-> <<>>]

Ready(l) == frame.pc = "idle" /\ lists[l].live /\ rt.phase = "off"

\* The effect of a member function that returns: its writes, the release of
\* the nodes left without an owner, the call and its result.
Returns(s, call, result) ==
    /\ heap' = Release(s.heap, s.lists, Idle)
    /\ lists' = s.lists
    /\ frame' = Idle
    /\ op' = call
    /\ ret' = result

Construct(l) ==
    /\ frame.pc = "idle" /\ ~lists[l].live /\ rt.phase = "off"
    /\ Returns([heap |-> heap, lists |-> [lists EXCEPT ![l] = EmptyList]],
               Call("doubly_linked_list", l, DefaultT, l), <<>>)
    /\ UNCHANGED rt

CopyConstruct(l, other) ==
    /\ frame.pc = "idle" /\ ~lists[l].live /\ lists[other].live /\ rt.phase = "off"
    /\ Cardinality(FreeSlots(heap)) >= size(lists, other)
    /\ Returns(copy_constructor(Store, l, other),
               Call("copy_constructor", l, DefaultT, other), <<>>)
    /\ UNCHANGED rt

MoveConstruct(l, other) ==
    /\ frame.pc = "idle" /\ ~lists[l].live /\ lists[other].live /\ rt.phase = "off"
    /\ Returns(move_constructor(Store, l, other),
               Call("move_constructor", l, DefaultT, other), <<>>)
    /\ UNCHANGED rt

Swap(fst, snd) ==
    /\ Ready(fst) /\ Ready(snd)
    /\ Returns(swap(Store, fst, snd),
               Call("swap", fst, DefaultT, snd), <<>>)
    /\ UNCHANGED rt

PushFront(l, item) ==
    /\ Ready(l)
    /\ FreeSlots(heap) # {}
    /\ Returns(push_front(Store, l, item), Call("push_front", l, item, l), <<>>)
    /\ UNCHANGED rt

PushBack(l, item) ==
    /\ Ready(l)
    /\ FreeSlots(heap) # {}
    /\ Returns(push_back(Store, l, item), Call("push_back", l, item, l), <<>>)
    /\ UNCHANGED rt

PopFront(l) ==
    /\ Ready(l)
    /\ LET r == pop_front(Store, l)
       IN  Returns(r, Call("pop_front", l, DefaultT, l), r.ret)
    /\ UNCHANGED rt

PopBack(l) ==
    /\ Ready(l)
    /\ LET r == pop_back(Store, l)
       IN  Returns(r, Call("pop_back", l, DefaultT, l), r.ret)
    /\ UNCHANGED rt

PeekFront(l) ==
    /\ Ready(l)
    /\ Returns(Store, Call("peek_front", l, DefaultT, l), peek_front(Store, l))
    /\ UNCHANGED rt

PeekBack(l) ==
    /\ Ready(l)
    /\ Returns(Store, Call("peek_back", l, DefaultT, l), peek_back(Store, l))
    /\ UNCHANGED rt

\* void clear() noexcept: `while ( !this->empty() ) this->blank_pop_front();`
\* ClearCall enters the function, ClearLoop is one evaluation of the loop
\* condition followed by the body or by the return.
ClearCall(l) ==
    /\ Ready(l)
    /\ frame' = [pc |-> "clear", l |-> l, r |-> l, node |-> NULL]
    /\ op' = Call("clear", l, DefaultT, l)
    /\ ret' = <<>>
    /\ UNCHANGED <<heap, lists, rt>>

\* clear with `if` in place of `while`.
clear_loop_once(s, fr) ==
    IF ~empty(s.lists, fr.l)
    THEN [s |-> blank_pop_front(s, fr.l), frame |-> Idle, name |-> "clear:return"]
    ELSE [s |-> s, frame |-> Idle, name |-> "clear:return"]

clear_loop(s, fr) ==
    IF ~empty(s.lists, fr.l)
    THEN [s |-> blank_pop_front(s, fr.l), frame |-> fr, name |-> "blank_pop_front"]
    ELSE [s |-> s, frame |-> Idle, name |-> "clear:return"]

ClearLoop ==
    /\ frame.pc = "clear"
    /\ \E r \in {clear_loop(Store, frame)} :
           /\ heap' = Release(r.s.heap, r.s.lists, r.frame)
           /\ lists' = r.s.lists
           /\ frame' = r.frame
           /\ op' = [Call(r.name, frame.l, DefaultT, frame.l) EXCEPT !.pre = op.pre]
    /\ ret' = <<>>
    /\ UNCHANGED rt

\* doubly_linked_list& operator+=( const doubly_linked_list& rhs ):
\*   if ( !rhs.empty() ) { node = rhs.back;
\*                         while ( node ) { push_back( node->item ); node = node->next; } }
\* PlusEqCall enters the function and initialises the local `node`;
\* PlusEqLoop is one evaluation of `while ( node )` followed by the body or by
\* the return.  With rhs another object the caller has room for rhs.size()
\* nodes; with rhs the same object the loop is bounded by the allocator alone.
PlusEqCall(l, rhs) ==
    /\ Ready(l) /\ Ready(rhs)
    /\ (l # rhs => Cardinality(FreeSlots(heap)) >= size(lists, rhs))
    /\ frame' = [pc |-> "plus_eq", l |-> l, r |-> rhs,
                 node |-> IF ~empty(lists, rhs) THEN lists[rhs].back ELSE NULL]
    /\ op' = Call("operator+=", l, DefaultT, rhs)
    /\ ret' = <<>>
    /\ UNCHANGED <<heap, lists, rt>>

\* operator+= inserting with push_front.
plus_eq_loop_push_front(s, fr) ==
    IF fr.node # NULL
    THEN IF FreeSlots(s.heap) # {}
         THEN LET s1 == push_front(s, fr.l, s.heap[fr.node].item)
              IN  [s |-> s1, frame |-> [fr EXCEPT !.node = s1.heap[fr.node].next],
                   name |-> "operator+=:push_back"]
         ELSE [s |-> s, frame |-> Idle, name |-> "operator+=:bad_alloc"]
    ELSE [s |-> s, frame |-> Idle, name |-> "operator+=:return"]

\* One turn of the loop of operator+=.  std::make_shared throws std::bad_alloc
\* when no node can be allocated; the exception leaves the function.
plus_eq_loop(s, fr) ==
    IF fr.node # NULL
    THEN IF FreeSlots(s.heap) # {}
         THEN LET s1 == push_back(s, fr.l, s.heap[fr.node].item)
              IN  [s |-> s1, frame |-> [fr EXCEPT !.node = s1.heap[fr.node].next],
                   name |-> "operator+=:push_back"]
         ELSE [s |-> s, frame |-> Idle, name |-> "operator+=:bad_alloc"]
    ELSE [s |-> s, frame |-> Idle, name |-> "operator+=:return"]

PlusEqLoop ==
    /\ frame.pc = "plus_eq"
    /\ \E r \in {plus_eq_loop(Store, frame)} :
           /\ heap' = Release(r.s.heap, r.s.lists, r.frame)
           /\ lists' = r.s.lists
           /\ frame' = r.frame
           /\ op' = [Call(r.name, frame.l, DefaultT, frame.r) EXCEPT
                       !.item = IF frame.node # NULL THEN heap[frame.node].item
                                ELSE DefaultT,
                       !.pre = op.pre]
    /\ ret' = <<>>
    /\ UNCHANGED rt

\* ----------------------------------------------------------- specification
Init ==
    /\ heap = [n \in Nodes |-> FreeNode]
    /\ lists = [l \in Lists |-> IF l = "a" THEN EmptyList ELSE NoList]
    /\ frame = Idle
    /\ op = [name |-> "doubly_linked_list", l |-> "a", item |-> DefaultT,
             other |-> "a", pre |-> 0]
    /\ ret = <<>>
    /\ rt = RtIdle

Next ==
    \/ \E l \in Lists : Construct(l)
    \/ \E l, other \in Lists : CopyConstruct(l, other)
    \/ \E l, other \in Lists : MoveConstruct(l, other)
    \/ \E fst, snd \in Lists : Swap(fst, snd)
    \/ \E l \in Lists, item \in Items : PushFront(l, item)
    \/ \E l \in Lists, item \in Items : PushBack(l, item)
    \/ \E l \in Lists : PopFront(l)
    \/ \E l \in Lists : PopBack(l)
    \/ \E l \in Lists : PeekFront(l)
    \/ \E l \in Lists : PeekBack(l)
    \/ \E l \in Lists : ClearCall(l)
    \/ ClearLoop
    \/ \E l, rhs \in Lists : PlusEqCall(l, rhs)
    \/ PlusEqLoop

Spec == Init /\ [][Next]_vars

\* The calls on one list that build it, shrink it and clear it.  A call in
\* progress runs on: the program is sequential, so clear(), once entered,
\* takes the next turn of its loop.
NextClear ==
    \/ \E item \in Items : PushFront("a", item)
    \/ \E item \in Items : PushBack("a", item)
    \/ PopFront("a")
    \/ PopBack("a")
    \/ ClearCall("a")
    \/ ClearLoop

ClearSpec == Init /\ [][NextClear]_vars /\ WF_vars(ClearLoop)


\* ------------------------------------------------- round-trip scenarios
\* The test cases push_front_pop_back, push_front_pop_front,
\* push_back_pop_back, push_back_pop_front and iterator_*: the values of the
\* input S are inserted one by one into an empty list (std::front_inserter
\* calls push_front, std::back_inserter calls push_back), then the list is
\* emptied by as many pops at one end, whose results are collected in out.
\* Here every value of S carries the end it is inserted at.
Ends == {"front", "back"}
Entry == [end : Ends, item : Items]
Inputs == UNION {[1..n -> Entry] : n \in 0..MaxLen}

InitRT ==
    /\ heap = [n \in Nodes |-> FreeNode]
    /\ lists = [l \in Lists |-> IF l = "a" THEN EmptyList ELSE NoList]
    /\ frame = Idle
    /\ op = [name |-> "doubly_linked_list", l |-> "a", item |-> DefaultT,
             other |-> "a", pre |-> 0]
    /\ ret = <<>>
    /\ \E S \in Inputs, e \in Ends :
          /\ Len(S) <= MaxNodes
          /\ rt = [phase |-> "push", S |-> S, popEnd |-> e, i |-> 0, out |-> <<>>]

RtPush ==
    /\ rt.phase = "push" /\ rt.i < Len(rt.S)
    /\ LET e == rt.S[rt.i + 1]
       IN  IF e.end = "front"
           THEN Returns(push_front(Store, "a", e.item),
                        Call("push_front", "a", e.item, "a"), <<>>)
           ELSE Returns(push_back(Store, "a", e.item),
                        Call("push_back", "a", e.item, "a"), <<>>)
    /\ rt' = [rt EXCEPT !.i = @ + 1]

RtPushed ==
    /\ rt.phase = "push" /\ rt.i = Len(rt.S)
    /\ rt' = [rt EXCEPT !.phase = "pop"]
    /\ UNCHANGED <<heap, lists, frame, op, ret>>

RtPop ==
    /\ rt.phase = "pop" /\ Len(rt.out) < Len(rt.S)
    /\ LET r == IF rt.popEnd = "front" THEN pop_front(Store, "a")
                ELSE pop_back(Store, "a")
       IN  /\ Returns(r, Call(IF rt.popEnd = "front" THEN "pop_front"
                              ELSE "pop_back", "a", DefaultT, "a"), r.ret)
           /\ rt' = [rt EXCEPT !.out = Append(@, r.ret[1])]

RtDone ==
    /\ rt.phase = "pop" /\ Len(rt.out) = Len(rt.S)
    /\ rt' = [rt EXCEPT !.phase = "done"]
    /\ UNCHANGED <<heap, lists, frame, op, ret>>

NextRT == RtPush \/ RtPushed \/ RtPop \/ RtDone

SpecRT == InitRT /\ [][NextRT]_vars

\* The abstract sequence: push_front prepends, push_back appends.
RECURSIVE Built(_)
Built(S) ==
    IF S = <<>> THEN <<>>
    ELSE LET e == S[Len(S)]
             p == Built(SubSeq(S, 1, Len(S) - 1))
         IN  IF e.end = "front" THEN <<e.item>> \o p ELSE Append(p, e.item)

Values(S) == [k \in 1..Len(S) |-> S[k].item]
AllAt(S, e) == \A k \in 1..Len(S) : S[k].end = e
Other(e) == IF e = "front" THEN "back" ELSE "front"


\* ------------------------------------------------------------------ claims
IsPrefixBuilt == rt.phase \in {"push", "pop"} /\ rt.out = <<>> /\ rt.i > 0

\* C1: from an empty list, every push_front prepends its item to the items
\* in forward-iteration order and every push_back appends it; every pop_front
\* on a non-empty list returns and removes the first item of that order and
\* every pop_back returns and removes the last one.
C1_MatchesAbstractSequence ==
    [][LET l == op'.l
           A == Contents(heap, lists, l)
           B == Contents(heap', lists', l)
       IN  /\ (op'.name = "push_front") => (B = <<op'.item>> \o A)
           /\ (op'.name = "push_back") => (B = Append(A, op'.item))
           /\ (op'.name = "pop_front" /\ A # <<>>) =>
                 (ret' = <<A[1]>> /\ B = SubSeq(A, 2, Len(A)))
           /\ (op'.name = "pop_back" /\ A # <<>>) =>
                 (ret' = <<A[Len(A)]>> /\ B = SubSeq(A, 1, Len(A) - 1))
      ]_vars

\* C2: pushing S item by item at one end of an empty list and popping Len(S)
\* times at the opposite end returns S in insertion order and leaves the list
\* empty (push_back then pop_front, push_front then pop_back).
C2_FifoRoundTrip ==
    \A e \in Ends :
        (rt.phase = "done" /\ AllAt(rt.S, e) /\ rt.popEnd = Other(e)) =>
            (rt.out = Values(rt.S) /\ empty(lists, "a"))

\* C3: pushing S item by item at one end of an empty list and popping Len(S)
\* times at the same end returns S reversed and leaves the list empty
\* (push_front then pop_front, push_back then pop_back).
C3_LifoRoundTrip ==
    \A e \in Ends :
        (rt.phase = "done" /\ AllAt(rt.S, e) /\ rt.popEnd = e) =>
            (rt.out = Reverse(Values(rt.S)) /\ empty(lists, "a"))

\* C4: after any interleaving of push_front and push_back on an empty list,
\* the walk from begin() to end() with ++ visits every node of the list
\* exactly once, and the items it yields are the inserted ones in the order in
\* which push_front prepends and push_back appends, repeated values included.
C4_ForwardWalk ==
    IsPrefixBuilt =>
        LET w == ForwardNodes(heap, lists, "a")
        IN  /\ ItemsAt(heap, w) = Built(SubSeq(rt.S, 1, rt.i))
            /\ NoRepeat(w)
            /\ Range(w) = {n \in Nodes : heap[n].used}
            /\ Len(w) = rt.i

\* A list of three nodes built with both push_front and push_back, holding a
\* repeated value, walked from begin() to end().
C4_Witness ==
    /\ rt.phase = "pop" /\ rt.out = <<>> /\ rt.i = 3
    /\ rt.S[1].end # rt.S[2].end
    /\ rt.S[1].item = rt.S[3].item /\ rt.S[1].item # rt.S[2].item
    /\ ItemsAt(heap, ForwardNodes(heap, lists, "a")) = Built(rt.S)
    /\ Len(ForwardNodes(heap, lists, "a")) = 3

\* C5: on every non-empty list the walk from rbegin() to rend() with ++
\* visits every node exactly once, in exactly the reverse of the order of the
\* walk from begin() to end().
C5_ReverseWalk ==
    \A l \in Lists :
        (lists[l].live /\ ~empty(lists, l)) =>
            LET f == ForwardNodes(heap, lists, l)
                r == ReverseNodes(heap, lists, l)
            IN  /\ r = Reverse(f)
                /\ NoRepeat(r)
                /\ Len(r) = size(lists, l)

\* A three-node list whose reverse walk yields other items than its forward walk.
C5_Witness ==
    /\ frame.pc = "idle" /\ lists["a"].live /\ size(lists, "a") = 3
    /\ LET f == ForwardNodes(heap, lists, "a")
           r == ReverseNodes(heap, lists, "a")
       IN  Len(r) = 3 /\ r = Reverse(f) /\ ItemsAt(heap, r) # ItemsAt(heap, f)

Canonical(ls, l) == ls[l].front = NULL /\ ls[l].back = NULL /\ ls[l].nodes = 0

\* C6: on an empty list pop_front, pop_back, peek_front and peek_back return
\* T() and change nothing: both end links stay absent, the count stays 0 and
\* empty() stays true.
C6_SafeEmpty ==
    [][(/\ op'.name \in {"pop_front", "pop_back", "peek_front", "peek_back"}
        /\ empty(lists, op'.l)) =>
           (/\ ret' = <<DefaultT>>
            /\ heap' = heap
            /\ lists' = lists
            /\ Canonical(lists', op'.l)
            /\ empty(lists', op'.l))
      ]_vars

\* pop_front has returned T() on an empty list while the other list holds a node.
C6_Witness ==
    /\ op.name = "pop_front" /\ op.pre = 0 /\ ret = <<DefaultT>>
    /\ empty(lists, op.l)
    /\ \E m \in Lists : lists[m].live /\ size(lists, m) > 0

\* C7: on a non-empty list peek_front() returns the value the immediately
\* following pop_front() returns, and peek_back() the value the immediately
\* following pop_back() returns; a peek changes no node, end link or count.
C7_PeekIsNextPop ==
    [][/\ (op'.name \in {"peek_front", "peek_back"}) =>
              (heap' = heap /\ lists' = lists)
       /\ (/\ op.name = "peek_front" /\ op'.name = "pop_front" /\ op'.l = op.l
           /\ ~empty(lists, op.l)) => (ret' = ret)
       /\ (/\ op.name = "peek_back" /\ op'.name = "pop_back" /\ op'.l = op.l
           /\ ~empty(lists, op.l)) => (ret' = ret)
      ]_vars

\* peek_front has returned on a list whose two ends hold different items.
C7_Witness ==
    /\ op.name = "peek_front" /\ op.pre >= 2
    /\ ret = <<heap[lists[op.l].front].item>>
    /\ heap[lists[op.l].front].item # heap[lists[op.l].back].item

\* C8: in every state the front link is absent iff the back link is absent
\* iff the count is 0, so empty() is true exactly when size() is 0.
C8_EmptinessAgrees ==
    \A l \in Lists :
        lists[l].live =>
            /\ (lists[l].front = NULL) <=> (lists[l].back = NULL)
            /\ (lists[l].back = NULL) <=> (lists[l].nodes = 0)
            /\ empty(lists, l) <=> (size(lists, l) = 0)

\* A list has been moved from: it is empty and the new list holds its nodes.
C8_Witness ==
    /\ op.name = "move_constructor"
    /\ size(lists, op.l) >= 2
    /\ empty(lists, op.other)

\* The number of nodes met from the back link along next up to the front
\* link; negative if the walk ends without meeting the front link.
RECURSIVE ChainCount(_, _, _, _)
ChainCount(h, n, stop, fuel) ==
    IF n = NULL \/ fuel = 0
    THEN IF n = NULL /\ stop = NULL THEN 0 ELSE 0 - (Cardinality(DOMAIN h) + 1)
    ELSE IF n = stop THEN 1
    ELSE 1 + ChainCount(h, h[n].next, stop, fuel - 1)

\* C9: size() is the number of nodes of the chain from one end link to the
\* other; every push adds one to it and every pop on a non-empty list takes
\* one from it, so it is the number of pushes less the number of such pops.
C9_SizeCountsNodes ==
    /\ [](\A l \in Lists :
            lists[l].live =>
               size(lists, l) =
                  ChainCount(heap, lists[l].back, lists[l].front, MaxNodes + 1))
    /\ [][LET l == op'.l
          IN  /\ (op'.name \in {"push_front", "push_back", "operator+=:push_back"})
                    => (size(lists', l) = size(lists, l) + 1)
              /\ (op'.name \in {"pop_front", "pop_back"}) =>
                    (size(lists', l) = IF empty(lists, l) THEN 0
                                       ELSE size(lists, l) - 1)
         ]_vars

\* pop_back has taken a three-node list to two nodes.
C9_Witness ==
    /\ op.name = "pop_back" /\ op.pre = 3
    /\ size(lists, op.l) = 2
    /\ ChainCount(heap, lists[op.l].back, lists[op.l].front, MaxNodes + 1) = 2

\* C10: clear() returns, and when it does both end links are absent, the
\* count is 0 and empty() is true; on an empty list it returns at once and
\* changes nothing.
C10_ClearTerminates ==
    /\ (frame.pc = "clear") ~>
          (/\ op.name = "clear:return" /\ frame.pc = "idle"
           /\ Canonical(lists, op.l) /\ empty(lists, op.l))
    /\ [][/\ (op'.name = "clear:return") =>
                 (Canonical(lists', op'.l) /\ empty(lists', op'.l))
          /\ (frame.pc = "clear" /\ empty(lists, frame.l)) =>
                 (op'.name = "clear:return" /\ heap' = heap /\ lists' = lists)
         ]_vars

\* clear() has returned on a list that held three nodes when it was called.
C10_Witness ==
    /\ op.name = "clear:return" /\ op.pre = 3
    /\ Canonical(lists, op.l) /\ empty(lists, op.l)

\* The nodes met from node n along next, and along previous.
RECURSIVE NextChain(_, _, _)
NextChain(h, n, fuel) ==
    IF n = NULL \/ fuel = 0 THEN {}
    ELSE {n} \cup NextChain(h, h[n].next, fuel - 1)

RECURSIVE PreviousChain(_, _, _)
PreviousChain(h, n, fuel) ==
    IF n = NULL \/ fuel = 0 THEN {}
    ELSE {n} \cup PreviousChain(h, h[n].previous, fuel - 1)

\* The nodes of list l: those met from its back link along next and from its
\* front link along previous.
ListNodes(h, ls, l) ==
    NextChain(h, ls[l].back, Cardinality(DOMAIN h))
        \cup PreviousChain(h, ls[l].front, Cardinality(DOMAIN h))

\* C19: in every state, for every node n of every list: if n.next is present
\* then n.next.previous is n, and if n.previous is present then
\* n.previous.next is n.
C19_LinksConsistent ==
    \A l \in Lists :
        lists[l].live =>
            \A n \in ListNodes(heap, lists, l) :
                /\ (heap[n].next # NULL) => (heap[heap[n].next].previous = n)
                /\ (heap[n].previous # NULL) => (heap[heap[n].previous].next = n)

\* A pop has left a list of two nodes that was reached through three pushes:
\* its two nodes are linked to each other in both directions.
C19_Witness ==
    /\ op.name \in {"pop_front", "pop_back"} /\ op.pre = 3
    /\ size(lists, op.l) = 2
    /\ LET b == lists[op.l].back
           f == lists[op.l].front
       IN  /\ b # f /\ ListNodes(heap, lists, op.l) = {b, f}
           /\ heap[b].next = f /\ heap[f].previous = b

\* C20: in every state every non-empty list is terminated at both ends: the
\* node at its back link has no previous node and the node at its front link
\* has no next node; a list of one node has both end links at that node, whose
\* previous and next are both absent.
C20_EndsTerminated ==
    \A l \in Lists :
        (lists[l].live /\ ~empty(lists, l)) =>
            /\ lists[l].back # NULL /\ lists[l].front # NULL
            /\ heap[lists[l].back].previous = NULL
            /\ heap[lists[l].front].next = NULL
            /\ (size(lists, l) = 1) =>
                  /\ lists[l].back = lists[l].front
                  /\ heap[lists[l].back].next = NULL
                  /\ heap[lists[l].front].previous = NULL

\* pop_front has taken a two-node list down to one node, at which both end
\* links point and whose own links are both absent.
C20_Witness ==
    /\ op.name = "pop_front" /\ op.pre = 2
    /\ size(lists, op.l) = 1
    /\ lists[op.l].back = lists[op.l].front /\ lists[op.l].front # NULL
    /\ heap[lists[op.l].front].next = NULL
    /\ heap[lists[op.l].front].previous = NULL

\* C14: move-constructing l from other leaves other with both end links
\* absent, count 0 and empty() true, and makes l hold the items other held
\* before the move, in the same order and with the same size.
C14_MoveTransfers ==
    [][(op'.name = "move_constructor") =>
          (/\ Canonical(lists', op'.other)
           /\ empty(lists', op'.other)
           /\ Contents(heap', lists', op'.l) = Contents(heap, lists, op'.other)
           /\ size(lists', op'.l) = size(lists, op'.other))
      ]_vars

\* A list has been move-constructed from a list of three nodes that held
\* different items at its two ends.
C14_Witness ==
    /\ op.name = "move_constructor"
    /\ size(lists, op.l) = 3
    /\ Canonical(lists, op.other)
    /\ Len(Contents(heap, lists, op.l)) = 3
    /\ Contents(heap, lists, op.l)[1] # Contents(heap, lists, op.l)[3]

\* ------------------------------------------------- comparison, whole calls
\* bool equals( node1, node2 ) const noexcept: both nullptr: true; one
\* nullptr: false; equal items: the comparison of the two next nodes.
RECURSIVE equals(_, _, _)
equals(h, node1, node2) ==
    IF node1 = NULL /\ node2 = NULL THEN TRUE
    ELSE IF node1 = NULL \/ node2 = NULL THEN FALSE
    ELSE IF h[node1].item = h[node2].item
         THEN equals(h, h[node1].next, h[node2].next)
         ELSE FALSE

\* operator== comparing from the front links.
operator_eq_at_front(h, ls, l, rhs) == equals(h, ls[l].front, ls[rhs].front)

\* bool operator==( const doubly_linked_list& rhs ) const noexcept
operator_eq(h, ls, l, rhs) == equals(h, ls[l].back, ls[rhs].back)

\* bool operator!=( const doubly_linked_list& rhs ) const noexcept
operator_ne(h, ls, l, rhs) == ~operator_eq(h, ls, l, rhs)

\* void clear() noexcept as one call: the turns of its loop up to the return.
RECURSIVE clear(_, _)
clear(s, l) ==
    LET r == clear_loop(s, [pc |-> "clear", l |-> l, r |-> l, node |-> NULL])
    IN  IF r.frame.pc = "idle" THEN r.s ELSE clear(r.s, l)

\* operator+= as one call, for rhs another object than *this: the local
\* `node` starts at rhs.back, then the turns of the loop up to the return.
RECURSIVE plus_eq_run(_, _)
plus_eq_run(s, fr) ==
    LET r == plus_eq_loop(s, fr)
    IN  IF r.frame.pc = "idle" THEN r.s ELSE plus_eq_run(r.s, r.frame)

operator_plus_eq(s, l, rhs) ==
    plus_eq_run(s, [pc |-> "plus_eq", l |-> l, r |-> rhs,
                    node |-> IF ~empty(s.lists, rhs) THEN s.lists[rhs].back
                             ELSE NULL])

\* doubly_linked_list& operator+( const doubly_linked_list& rhs ), the member
\* a non-const left operand selects: `return *this += rhs;`.  The result is
\* the reference to *this.
operator_plus(s, l, rhs) == operator_plus_eq(s, l, rhs)

\* ------------------------------------------------- two-list scenarios
\* Two default-constructed lists are filled one after the other, every item
\* at the same end (std::front_inserter or std::back_inserter, as in the test
\* cases), each with at most MaxLen items; then one of a == b, a != b,
\* a += b and a + b is evaluated, on either order of the two lists (and on
\* a list and itself for the comparisons).  The heap has room for both
\* lists and for the nodes += allocates.
InitTwo ==
    /\ heap = [n \in 1..(3 * MaxLen) |-> FreeNode]
    /\ lists = [l \in Lists |-> EmptyList]
    /\ frame = Idle
    /\ op = [name |-> "doubly_linked_list", l |-> "b", item |-> DefaultT,
             other |-> "b", pre |-> 0]
    /\ ret = <<>>
    /\ \E e \in Ends : rt = [phase |-> "first", end |-> e]

TwoFilling == IF rt.phase = "first" THEN "a" ELSE "b"

TwoPush(item) ==
    /\ rt.phase \in {"first", "second"}
    /\ size(lists, TwoFilling) < MaxLen
    /\ IF rt.end = "front"
       THEN Returns(push_front(Store, TwoFilling, item),
                    Call("push_front", TwoFilling, item, TwoFilling), <<>>)
       ELSE Returns(push_back(Store, TwoFilling, item),
                    Call("push_back", TwoFilling, item, TwoFilling), <<>>)
    /\ UNCHANGED rt

TwoSecond ==
    /\ rt.phase = "first"
    /\ rt' = [rt EXCEPT !.phase = "second"]
    /\ UNCHANGED <<heap, lists, frame, op, ret>>

TwoEqual(l, rhs) ==
    /\ rt.phase = "second"
    /\ Returns(Store, Call("operator==", l, DefaultT, rhs),
               <<operator_eq(heap, lists, l, rhs)>>)
    /\ rt' = [rt EXCEPT !.phase = "checked"]

TwoNotEqual(l, rhs) ==
    /\ rt.phase = "second"
    /\ Returns(Store, Call("operator!=", l, DefaultT, rhs),
               <<operator_ne(heap, lists, l, rhs)>>)
    /\ rt' = [rt EXCEPT !.phase = "checked"]

TwoPlusEq(l, rhs) ==
    /\ rt.phase = "second" /\ l # rhs
    /\ Returns(operator_plus_eq(Store, l, rhs),
               Call("operator+=", l, DefaultT, rhs), <<>>)
    /\ rt' = [rt EXCEPT !.phase = "checked"]

TwoPlus(l, rhs) ==
    /\ rt.phase = "second" /\ l # rhs
    /\ Returns(operator_plus(Store, l, rhs),
               Call("operator+", l, DefaultT, rhs), <<>>)
    /\ rt' = [rt EXCEPT !.phase = "checked"]

NextTwo ==
    \/ \E item \in Items : TwoPush(item)
    \/ TwoSecond
    \/ \E l, rhs \in Lists : TwoEqual(l, rhs)
    \/ \E l, rhs \in Lists : TwoNotEqual(l, rhs)
    \/ \E l, rhs \in Lists : TwoPlusEq(l, rhs)
    \/ \E l, rhs \in Lists : TwoPlus(l, rhs)

SpecTwo == InitTwo /\ [][NextTwo]_vars

\* C11: a == b is true exactly when a and b hold the same items in the same
\* forward order (so a == a is true, two empty lists are equal, a list and a
\* proper prefix of it are unequal), and a != b is its negation.
C11_EqualIffSameItems ==
    [][/\ (op'.name = "operator==") =>
             (ret' = <<Contents(heap, lists, op'.l)
                          = Contents(heap, lists, op'.other)>>)
       /\ (op'.name = "operator!=") =>
             (ret' = <<Contents(heap, lists, op'.l)
                          # Contents(heap, lists, op'.other)>>)
       /\ (op'.name = "operator==" /\ op'.l = op'.other) => (ret' = <<TRUE>>)
      ]_vars

\* Two different objects that hold the same three items, not all the same
\* value, have compared equal.
C11_Witness ==
    /\ op.name = "operator==" /\ op.l # op.other /\ ret = <<TRUE>>
    /\ size(lists, "a") = 3 /\ size(lists, "b") = 3
    /\ Contents(heap, lists, "a")[1] # Contents(heap, lists, "a")[3]

\* C16: for l and rhs different objects, l += rhs leaves l iterating as its
\* old items followed by the items of rhs in rhs's forward order, with size
\* grown by size(rhs), and leaves rhs's items, order and size as they were;
\* with rhs empty nothing changes.
C16_PlusEqAppends ==
    [][(op'.name = "operator+=" /\ op'.l # op'.other) =>
          (/\ Contents(heap', lists', op'.l)
                 = Contents(heap, lists, op'.l) \o Contents(heap, lists, op'.other)
           /\ size(lists', op'.l) = size(lists, op'.l) + size(lists, op'.other)
           /\ Contents(heap', lists', op'.other) = Contents(heap, lists, op'.other)
           /\ lists'[op'.other] = lists[op'.other]
           /\ empty(lists, op'.other) => (heap' = heap /\ lists' = lists))
      ]_vars

\* A list of two items has been extended by a list of two other items.
C16_Witness ==
    /\ op.name = "operator+=" /\ op.pre = 2
    /\ size(lists, op.other) = 2 /\ size(lists, op.l) = 4
    /\ LET c == Contents(heap, lists, op.l)
       IN  Len(c) = 4 /\ <<c[1], c[2]>> # <<c[3], c[4]>> /\ c[3] # c[4]
           /\ <<c[3], c[4]>> = Contents(heap, lists, op.other)

\* ------------------------------------------------- copy and move scenarios
\* A list a is filled by up to MaxLen pushes; a second list b is then
\* copy-constructed or move-constructed from it (`auto list_copy( list )`,
\* `auto list_move = std::move( list )`); then push, pop and clear calls
\* follow: on either list after a copy, on the moved-from list after a move.
\* A scenario makes at most MaxLen + 2 calls.  Beside the moved-from list runs
\* a reference: a default-constructed list in a heap of its own (rt.ref) that
\* receives the same calls.
PushCalls == [name : {"push_front", "push_back"}, item : Items]
Calls == PushCalls \cup [name : {"pop_front", "pop_back", "clear"}, item : {DefaultT}]

\* The store and the result of the call c on list l.
Apply(s, l, c) ==
    CASE c.name = "push_front" ->
            LET r == push_front(s, l, c.item)
            IN  [heap |-> r.heap, lists |-> r.lists, ret |-> <<>>]
      [] c.name = "push_back" ->
            LET r == push_back(s, l, c.item)
            IN  [heap |-> r.heap, lists |-> r.lists, ret |-> <<>>]
      [] c.name = "pop_front" -> pop_front(s, l)
      [] c.name = "pop_back" -> pop_back(s, l)
      [] c.name = "clear" ->
            LET r == clear(s, l)
            IN  [heap |-> r.heap, lists |-> r.lists, ret |-> <<>>]

\* The store once the call has returned and the unowned nodes are released.
Settled(s) == [heap |-> Release(s.heap, s.lists, Idle), lists |-> s.lists]

InitPair ==
    /\ heap = [n \in 1..(2 * MaxLen) |-> FreeNode]
    /\ lists = [l \in Lists |-> IF l = "a" THEN EmptyList ELSE NoList]
    /\ frame = Idle
    /\ op = [name |-> "doubly_linked_list", l |-> "a", item |-> DefaultT,
             other |-> "a", pre |-> 0]
    /\ ret = <<>>
    /\ rt = [phase |-> "build", n |-> 0,
             ref |-> [heap |-> [n \in 1..(2 * MaxLen) |-> FreeNode],
                      lists |-> [l \in Lists |-> IF l = "a" THEN EmptyList
                                                 ELSE NoList]],
             refRet |-> <<>>]

PairBuild(c) ==
    /\ rt.phase = "build" /\ rt.n < MaxLen
    /\ LET r == Apply(Store, "a", c)
       IN  Returns(r, Call(c.name, "a", c.item, "a"), r.ret)
    /\ rt' = [rt EXCEPT !.n = @ + 1]

PairCopy ==
    /\ rt.phase = "build"
    /\ Returns(copy_constructor(Store, "b", "a"),
               Call("copy_constructor", "b", DefaultT, "a"), <<>>)
    /\ rt' = [rt EXCEPT !.phase = "copied", !.n = @ + 1]

PairMove ==
    /\ rt.phase = "build"
    /\ Returns(move_constructor(Store, "b", "a"),
               Call("move_constructor", "b", DefaultT, "a"), <<>>)
    /\ rt' = [rt EXCEPT !.phase = "moved", !.n = @ + 1]

PairUse(l, c) ==
    /\ rt.phase \in {"copied", "moved"} /\ rt.n < MaxLen + 2
    /\ (rt.phase = "moved") => (l = "a")
    /\ (c \in PushCalls) => (FreeSlots(heap) # {})
    /\ LET r == Apply(Store, l, c)
       IN  Returns(r, Call(c.name, l, c.item, l), r.ret)
    /\ rt' = IF rt.phase = "moved"
             THEN LET q == Apply(rt.ref, "a", c)
                  IN  [rt EXCEPT !.n = @ + 1, !.ref = Settled(q), !.refRet = q.ret]
             ELSE [rt EXCEPT !.n = @ + 1]

NextPair ==
    \/ \E c \in PushCalls : PairBuild(c)
    \/ PairCopy
    \/ PairMove
    \/ \E l \in Lists, c \in Calls : PairUse(l, c)

SpecPair == InitPair /\ [][NextPair]_vars

OtherList(l) == IF l = "a" THEN "b" ELSE "a"

\* List m is left as it was by the step: its fields, its nodes, its items.
Untouched(m) ==
    /\ lists'[m] = lists[m]
    /\ \A n \in ListNodes(heap, lists, m) : heap'[n] = heap[n]
    /\ Contents(heap', lists', m) = Contents(heap, lists, m)
    /\ size(lists', m) = size(lists, m)

\* C12: copy-constructing l from any source (filled at the front, at the
\* back, at both, or empty) yields a list that compares equal to the source,
\* with the same items in the same forward order and the same size, and
\* leaves the source as it was.
C12_CopyEqualsSource ==
    [][(op'.name = "copy_constructor") =>
          (/\ operator_eq(heap', lists', op'.l, op'.other)
           /\ operator_eq(heap', lists', op'.other, op'.l)
           /\ Contents(heap', lists', op'.l) = Contents(heap, lists, op'.other)
           /\ size(lists', op'.l) = size(lists, op'.other)
           /\ Untouched(op'.other))
      ]_vars

\* A list of three items, filled at both ends and not all of one value, has
\* been copied.
C12_Witness ==
    /\ op.name = "copy_constructor"
    /\ size(lists, "a") = 3 /\ size(lists, "b") = 3
    /\ Contents(heap, lists, "b") = Contents(heap, lists, "a")
    /\ Contents(heap, lists, "b")[1] # Contents(heap, lists, "b")[2]
    /\ lists["a"].back # 1 /\ lists["a"].front # 1

\* C13: a copy shares no node with its source, and every push, pop and clear
\* on one of the two lists after the copy leaves the other one's items, order
\* and size as they were.
C13_CopyIndependent ==
    /\ []((rt.phase = "copied") =>
             (ListNodes(heap, lists, "a") \cap ListNodes(heap, lists, "b") = {}))
    /\ [][(rt.phase = "copied" /\ rt'.phase = "copied") =>
             Untouched(OtherList(op'.l))
         ]_vars

\* a.clear() after b was copied from a two-item a: b still holds the two items.
C13_Witness ==
    /\ rt.phase = "copied"
    /\ op.name = "clear" /\ op.l = "a" /\ op.pre = 2
    /\ empty(lists, "a")
    /\ ~empty(lists, "b") /\ Len(Contents(heap, lists, "b")) = 2

\* The invariants of one list: the emptiness conditions agree, the count is
\* the length of the chain from back to front, the links are mutually
\* consistent and the chain is terminated at both ends.
WellFormed(h, ls, l) ==
    /\ (ls[l].front = NULL) <=> (ls[l].back = NULL)
    /\ (ls[l].back = NULL) <=> (ls[l].nodes = 0)
    /\ ls[l].nodes = ChainCount(h, ls[l].back, ls[l].front, Cardinality(DOMAIN h))
    /\ \A n \in ListNodes(h, ls, l) :
          /\ (h[n].next # NULL) => (h[h[n].next].previous = n)
          /\ (h[n].previous # NULL) => (h[h[n].previous].next = n)
    /\ (ls[l].back # NULL /\ ls[l].front # NULL) =>
          (h[ls[l].back].previous = NULL /\ h[ls[l].front].next = NULL)

\* C15: after b was move-constructed from a, every push, pop and clear on a
\* returns what the same call returns on a default-constructed list that
\* received the same calls, and leaves a with the same items, size and
\* emptiness as that list; a and b keep the list invariants; b is left as it
\* was.
C15_MovedFromUsable ==
    /\ []((rt.phase = "moved") =>
             (/\ Contents(heap, lists, "a")
                    = Contents(rt.ref.heap, rt.ref.lists, "a")
              /\ size(lists, "a") = size(rt.ref.lists, "a")
              /\ empty(lists, "a") <=> empty(rt.ref.lists, "a")
              /\ WellFormed(heap, lists, "a")
              /\ WellFormed(heap, lists, "b")))
    /\ [][(rt.phase = "moved" /\ rt'.phase = "moved") =>
             (ret' = rt'.refRet /\ Untouched("b"))
         ]_vars

\* On a list that was moved from while it held an item, two pushes and a
\* pop_front have been made; the pop returned an item and b holds its item.
C15_Witness ==
    /\ rt.phase = "moved" /\ rt.n = MaxLen + 2
    /\ op.name = "pop_front" /\ op.pre = 2 /\ Len(ret) = 1
    /\ ret = rt.refRet
    /\ size(lists, "a") = 1
    /\ size(lists, "b") >= 1

\* ------------------------------------------------------ cursor scenarios
\* An undefined read through a null pointer: the build may stop the program
\* (crash) or go on with any value.
Crash == [crash |-> TRUE, value |-> <<>>]
Value(v) == [crash |-> FALSE, value |-> <<v>>]

\* iterator_impl::operator==( const iterator_impl& it ) const, all cases: both
\* nullptr: true; it.node nullptr: false; else *( this->node ) == *( it.node ),
\* which with this->node nullptr reads through a null pointer.
iterator_eq_outcomes(h, this, it) ==
    IF this = NULL /\ it = NULL THEN {Value(TRUE)}
    ELSE IF it = NULL THEN {Value(FALSE)}
    ELSE IF this = NULL THEN {Crash, Value(TRUE), Value(FALSE)}
    ELSE {Value(h[this].item = h[it].item)}

\* reverse_iterator_impl::operator==( const reverse_iterator_impl& it ): the
\* same three tests.
reverse_iterator_eq_outcomes(h, this, it) ==
    IF this = NULL /\ it = NULL THEN {Value(TRUE)}
    ELSE IF it = NULL THEN {Value(FALSE)}
    ELSE IF this = NULL THEN {Crash, Value(TRUE), Value(FALSE)}
    ELSE {Value(h[this].item = h[it].item)}

\* iterator_impl::operator--: this->node = this->node->previous.get(), which
\* with this->node nullptr (the sentinel) reads through a null pointer.
iterator_dec_outcomes(h, node) ==
    IF node # NULL THEN {Value(h[node].previous)}
    ELSE {Crash} \cup {Value(n) : n \in DOMAIN h \cup {NULL}}

\* reverse_iterator_impl::operator--: this->node = this->node->next.get()
reverse_iterator_dec_outcomes(h, node) ==
    IF node # NULL THEN {Value(h[node].next)}
    ELSE {Crash} \cup {Value(n) : n \in DOMAIN h \cup {NULL}}

Kinds == {"iterator", "reverse_iterator"}

\* A list is filled by up to MaxLen pushes.  On the non-empty list cursors are
\* compared (the operands are the positions begin() and ++ reach: the nodes of
\* the list and the sentinel), or one cursor is taken with begin() or
\* rbegin() and moved with ++ and --.  rt.it is the node the cursor holds,
\* rt.was the node it held before its last ++.
InitIt ==
    /\ heap = [n \in Nodes |-> FreeNode]
    /\ lists = [l \in Lists |-> IF l = "a" THEN EmptyList ELSE NoList]
    /\ frame = Idle
    /\ op = [name |-> "doubly_linked_list", l |-> "a", item |-> DefaultT,
             other |-> "a", pre |-> 0]
    /\ ret = <<>>
    /\ rt = [phase |-> "fill", kind |-> "iterator", it |-> NULL, was |-> NULL,
             crashed |-> FALSE]

ItPush(c) ==
    /\ rt.phase = "fill" /\ size(lists, "a") < MaxLen /\ FreeSlots(heap) # {}
    /\ LET r == Apply(Store, "a", c)
       IN  Returns(r, Call(c.name, "a", c.item, "a"), r.ret)
    /\ UNCHANGED rt

Positions == ListNodes(heap, lists, "a") \cup {NULL}

ItEqual(kind, x, y) ==
    /\ rt.phase = "fill" /\ ~empty(lists, "a")
    /\ x \in Positions /\ y \in Positions
    /\ \E r \in IF kind = "iterator" THEN iterator_eq_outcomes(heap, x, y)
                ELSE reverse_iterator_eq_outcomes(heap, x, y) :
          /\ ret' = r.value
          /\ rt' = [rt EXCEPT !.phase = "compared", !.kind = kind, !.it = x,
                              !.was = y, !.crashed = r.crash]
    /\ op' = Call("operator==", "a", DefaultT, "a")
    /\ UNCHANGED <<heap, lists, frame>>

ItBegin(kind) ==
    /\ rt.phase = "fill" /\ ~empty(lists, "a")
    /\ rt' = [rt EXCEPT !.phase = "cursor", !.kind = kind,
                        !.it = IF kind = "iterator" THEN begin(heap, lists, "a")
                               ELSE rbegin(heap, lists, "a")]
    /\ op' = Call(IF kind = "iterator" THEN "begin" ELSE "rbegin",
                  "a", DefaultT, "a")
    /\ ret' = <<>>
    /\ UNCHANGED <<heap, lists, frame>>

ItInc ==
    /\ rt.phase = "cursor" /\ ~rt.crashed /\ rt.it # NULL
    /\ rt' = [rt EXCEPT !.was = rt.it,
                        !.it = IF rt.kind = "iterator"
                               THEN iterator_inc(heap, rt.it)
                               ELSE reverse_iterator_inc(heap, rt.it)]
    /\ op' = Call("operator++", "a", DefaultT, "a")
    /\ ret' = <<>>
    /\ UNCHANGED <<heap, lists, frame>>

ItDec ==
    /\ rt.phase = "cursor" /\ ~rt.crashed /\ op.name = "operator++"
    /\ \E r \in IF rt.kind = "iterator" THEN iterator_dec_outcomes(heap, rt.it)
                ELSE reverse_iterator_dec_outcomes(heap, rt.it) :
          rt' = [rt EXCEPT !.it = IF r.crash THEN NULL ELSE r.value[1],
                           !.crashed = r.crash]
    /\ op' = Call("operator--", "a", DefaultT, "a")
    /\ ret' = <<>>
    /\ UNCHANGED <<heap, lists, frame>>

NextIt ==
    \/ \E c \in PushCalls : ItPush(c)
    \/ \E kind \in Kinds, x, y \in Nodes \cup {NULL} : ItEqual(kind, x, y)
    \/ \E kind \in Kinds : ItBegin(kind)
    \/ ItInc
    \/ ItDec

SpecIt == InitIt /\ [][NextIt]_vars

\* C17: x == y on two cursors of the same kind returns, for every pair and in
\* either operand order, whether both are the sentinel or both are on nodes
\* with equal items; with the sentinel on the left and a node on the right it
\* returns false.
C17_CursorEquality ==
    [][(op'.name = "operator==") =>
          (/\ ~rt'.crashed
           /\ ret' = <<IF rt'.it = NULL \/ rt'.was = NULL
                       THEN rt'.it = NULL /\ rt'.was = NULL
                       ELSE heap[rt'.it].item = heap[rt'.was].item>>)
      ]_vars

\* C18: ++ followed by -- leaves a cursor that was on an element of the list
\* on the same node, also when the ++ took it to the sentinel.
C18_RetreatUndoesAdvance ==
    [][(op.name = "operator++" /\ op'.name = "operator--") =>
          (~rt'.crashed /\ rt'.it = rt.was)
      ]_vars

\* ------------------------------------------------------- release of nodes
\* The node objects that exist in heap h.
UsedNodes(h) == {n \in DOMAIN h : h[n].used}

\* C21: when pop_front, pop_back or a turn of clear's loop has taken a node
\* from a non-empty list, no link owns that node and it no longer exists, and
\* the nodes that exist are the nodes of the list, one per counted item, each
\* owned by a link; when clear returns no node of the list is left.
C21_RemovedNodeReleased ==
    [][LET l == op'.l
           removed == IF op'.name = "pop_back" THEN lists[l].back
                      ELSE lists[l].front
       IN  /\ (op'.name \in {"pop_front", "pop_back", "blank_pop_front"}
                  /\ ~empty(lists, l)) =>
                 (/\ ~Owned(heap', lists', frame', removed)
                  /\ ~heap'[removed].used
                  /\ UsedNodes(heap') = ListNodes(heap', lists', l)
                  /\ Cardinality(UsedNodes(heap')) = size(lists', l)
                  /\ size(lists', l) = size(lists, l) - 1
                  /\ \A m \in UsedNodes(heap') : Owned(heap', lists', frame', m))
           /\ (op'.name = "clear:return") => (UsedNodes(heap') = {})
      ]_vars

\* pop_back has taken the node at `back` from a list of three nodes, whose
\* neighbour owned it through its previous link; two nodes remain.
C21_Witness ==
    /\ op.name = "pop_back" /\ op.pre = 3
    /\ size(lists, op.l) = 2
    /\ Cardinality(UsedNodes(heap)) = 2

\* ------------------------------------------------------ destruction scenarios
\* ~doubly_linked_list() noexcept = default: the members are destroyed, so the
\* object's two std::shared_ptr, front and back, give up the nodes they own;
\* no node's link is reset.
destructor(s, l) ==
    [heap |-> s.heap, lists |-> [s.lists EXCEPT ![l] = NoList]]

\* One list is default-constructed, receives at most MaxLen push, pop and
\* clear calls and is then destroyed (`doubly_linked_list< value_type > list`
\* leaving its scope).  rt.n counts the calls.
InitDtor ==
    /\ heap = [n \in Nodes |-> FreeNode]
    /\ lists = [l \in Lists |-> IF l = "a" THEN EmptyList ELSE NoList]
    /\ frame = Idle
    /\ op = [name |-> "doubly_linked_list", l |-> "a", item |-> DefaultT,
             other |-> "a", pre |-> 0]
    /\ ret = <<>>
    /\ rt = [phase |-> "live", n |-> 0]

DtorUse(c) ==
    /\ rt.phase = "live" /\ rt.n < MaxLen
    /\ (c \in PushCalls) => (FreeSlots(heap) # {})
    /\ LET r == Apply(Store, "a", c)
       IN  Returns(r, Call(c.name, "a", c.item, "a"), r.ret)
    /\ rt' = [rt EXCEPT !.n = @ + 1]

Destroy ==
    /\ rt.phase = "live"
    /\ Returns(destructor(Store, "a"),
               Call("~doubly_linked_list", "a", DefaultT, "a"), <<>>)
    /\ rt' = [rt EXCEPT !.phase = "destroyed"]

NextDtor ==
    \/ \E c \in Calls : DtorUse(c)
    \/ Destroy

SpecDtor == InitDtor /\ [][NextDtor]_vars

\* C22: once a list of any size has been destroyed, none of its nodes exists
\* any more: no node is kept by the links of its neighbours.
C22_DestructorReleasesAll ==
    (op.name = "~doubly_linked_list") => (UsedNodes(heap) = {})

\* ------------------------------------------------------------ concatenation
\* C23: every call of operator+= leaves by its return statement, having
\* appended as many items as the right operand held when the call was made
\* (op.pre is the size of the left operand at the call); with the right
\* operand the left operand itself the size has doubled.
C23_PlusEqTerminates ==
    [][(frame.pc = "plus_eq" /\ frame'.pc = "idle") =>
          (/\ op'.name = "operator+=:return"
           /\ size(lists', frame.l) =
                 op.pre + (IF frame.l = frame.r THEN op.pre
                           ELSE size(lists', frame.r)))
      ]_vars

\* C24: l + rhs, with l a non-const list and rhs another list, gives a result
\* (the list the returned reference names, l) that iterates as l's items
\* followed by rhs's items, and leaves l and rhs with the items and the size
\* they had before.
C24_PlusLeavesOperands ==
    [][(op'.name = "operator+") =>
          (/\ Contents(heap', lists', op'.l)
                 = Contents(heap, lists, op'.l) \o Contents(heap, lists, op'.other)
           /\ Contents(heap', lists', op'.l) = Contents(heap, lists, op'.l)
           /\ size(lists', op'.l) = size(lists, op'.l)
           /\ Contents(heap', lists', op'.other) = Contents(heap, lists, op'.other)
           /\ size(lists', op'.other) = size(lists, op'.other))
      ]_vars

\* ------------------------------------------------------- range scenarios
\* auto next( current ) const and auto previous( current ) const, all cases:
\* current->next.get() and current->previous.get(), which with current
\* nullptr read through a null pointer.
next_outcomes(h, current) ==
    IF current # NULL THEN {Value(h[current].next)}
    ELSE {Crash} \cup {Value(n) : n \in DOMAIN h \cup {NULL}}

previous_outcomes(h, current) ==
    IF current # NULL THEN {Value(h[current].previous)}
    ELSE {Crash} \cup {Value(n) : n \in DOMAIN h \cup {NULL}}

\* iterator end(): iterator( this->next( this->last() ) )
end_outcomes(h, ls, l) == next_outcomes(h, last(ls, l))

\* reverse_iterator rend(): reverse_iterator( this->previous( this->first() ) )
rend_outcomes(h, ls, l) == previous_outcomes(h, first(ls, l))

\* A list a is default-constructed and receives at most MaxLen push, pop and
\* clear calls, or is moved from; then the two ends of one of its ranges are
\* taken: begin() and end(), or rbegin() and rend().  rt.b and rt.e are the
\* nodes the two cursors hold.
InitRange ==
    /\ heap = [n \in Nodes |-> FreeNode]
    /\ lists = [l \in Lists |-> IF l = "a" THEN EmptyList ELSE NoList]
    /\ frame = Idle
    /\ op = [name |-> "doubly_linked_list", l |-> "a", item |-> DefaultT,
             other |-> "a", pre |-> 0]
    /\ ret = <<>>
    /\ rt = [phase |-> "live", n |-> 0, b |-> NULL, e |-> NULL,
             crashed |-> FALSE]

RangeUse(c) ==
    /\ rt.phase = "live" /\ rt.n < MaxLen
    /\ (c \in PushCalls) => (FreeSlots(heap) # {})
    /\ LET r == Apply(Store, "a", c)
       IN  Returns(r, Call(c.name, "a", c.item, "a"), r.ret)
    /\ rt' = [rt EXCEPT !.n = @ + 1]

RangeMove ==
    /\ rt.phase = "live" /\ ~lists["b"].live
    /\ Returns(move_constructor(Store, "b", "a"),
               Call("move_constructor", "b", DefaultT, "a"), <<>>)
    /\ UNCHANGED rt

RangeEnds(kind) ==
    /\ rt.phase = "live"
    /\ \E r \in IF kind = "iterator" THEN end_outcomes(heap, lists, "a")
                ELSE rend_outcomes(heap, lists, "a") :
          rt' = [rt EXCEPT !.phase = "taken",
                           !.b = IF kind = "iterator" THEN begin(heap, lists, "a")
                                 ELSE rbegin(heap, lists, "a"),
                           !.e = IF r.crash THEN NULL ELSE r.value[1],
                           !.crashed = r.crash]
    /\ op' = Call(IF kind = "iterator" THEN "end" ELSE "rend",
                  "a", DefaultT, "a")
    /\ ret' = <<>>
    /\ UNCHANGED <<heap, lists, frame>>

NextRange ==
    \/ \E c \in Calls : RangeUse(c)
    \/ RangeMove
    \/ \E kind \in Kinds : RangeEnds(kind)

SpecRange == InitRange /\ [][NextRange]_vars

\* C25: on an empty list (default-constructed, cleared, popped down to empty
\* or moved from) begin() and end(), and rbegin() and rend(), are taken
\* without a read through an absent node and all hold the sentinel, so the
\* two ends of either range are equal and a walk between them visits nothing.
C25_EmptyRangeIsSentinel ==
    (op.name \in {"end", "rend"} /\ empty(lists, "a")) =>
        (/\ ~rt.crashed
         /\ rt.b = NULL /\ rt.e = NULL
         /\ iterator_eq(heap, rt.b, rt.e))

=============================================================================
